---- MODULE Spec2Model ----
(***************************************************************************)
(* Model of mot/factory.py (name -> class lookup) and of                   *)
(* mot/parameter_functions/proposals.py (ProposalParameter, its default    *)
(* update rule, GaussianProposal and the CL source fragments it returns).  *)
(*                                                                         *)
(* Numbers.  The CL kernel computes on uint (32 bit, wrapping) and on      *)
(* model_float.  Naturals beyond the checker's machine integers are kept   *)
(* as little-endian digit sequences in base 10000 (<<>> is 0).  A          *)
(* model_float is kept exactly, without rounding: either one of the IEEE   *)
(* specials "nan", "pinf", "ninf", or the finite value sgn * sqrt(n / d)   *)
(* with sgn in {-1, 0, 1}.                                                 *)
(***************************************************************************)
EXTENDS Integers, Sequences, FiniteSets

VARIABLES factory, upd, sampler, program, pdf

vars == <<factory, upd, sampler, program, pdf>>

None == [k |-> "none"]

---------------------------------------------------------------------------
(* Natural numbers of any size: digit sequences, base 10000, low digit first *)

RECURSIVE BigNorm(_)
BigNorm(s) ==
    IF s = <<>> THEN <<>>
    ELSE IF s[Len(s)] = 0 THEN BigNorm(SubSeq(s, 1, Len(s) - 1))
    ELSE s

RECURSIVE BigOfNat(_)
BigOfNat(n) ==
    IF n = 0 THEN <<>> ELSE <<n % 10000>> \o BigOfNat(n \div 10000)

Digit(s, i) == IF i <= Len(s) THEN s[i] ELSE 0

RECURSIVE BigAddC(_, _, _, _)
BigAddC(a, b, i, c) ==
    IF i > Len(a) /\ i > Len(b)
    THEN (IF c = 0 THEN <<>> ELSE <<c>>)
    ELSE LET t == Digit(a, i) + Digit(b, i) + c
         IN  <<t % 10000>> \o BigAddC(a, b, i + 1, t \div 10000)

BigAdd(a, b) == BigAddC(a, b, 1, 0)

RECURSIVE BigSubC(_, _, _, _)
BigSubC(a, b, i, br) ==
    IF i > Len(a) THEN <<>>
    ELSE LET t == Digit(a, i) - Digit(b, i) - br
         IN  IF t < 0 THEN <<t + 10000>> \o BigSubC(a, b, i + 1, 1)
             ELSE <<t>> \o BigSubC(a, b, i + 1, 0)

\* a - b for a >= b
BigSub(a, b) == BigNorm(BigSubC(a, b, 1, 0))

RECURSIVE BigMulD(_, _, _, _)
BigMulD(a, dg, i, c) ==
    IF i > Len(a)
    THEN (IF c = 0 THEN <<>> ELSE <<c>>)
    ELSE LET t == a[i] * dg + c
         IN  <<t % 10000>> \o BigMulD(a, dg, i + 1, t \div 10000)

RECURSIVE BigMul(_, _)
BigMul(a, b) ==
    IF a = <<>> \/ b = <<>> THEN <<>>
    ELSE LET rest == BigMul(a, Tail(b))
         IN  BigAdd(BigNorm(BigMulD(a, b[1], 1, 0)),
                    IF rest = <<>> THEN <<>> ELSE <<0>> \o rest)

RECURSIVE BigCmpAt(_, _, _)
BigCmpAt(a, b, i) ==
    IF i = 0 THEN 0
    ELSE IF a[i] < b[i] THEN -1
    ELSE IF a[i] > b[i] THEN 1
    ELSE BigCmpAt(a, b, i - 1)

\* -1, 0 or 1 as a < b, a = b, a > b
BigCmp(a, b) ==
    IF Len(a) < Len(b) THEN -1
    ELSE IF Len(a) > Len(b) THEN 1
    ELSE BigCmpAt(a, b, Len(a))

BigOne == <<1>>

---------------------------------------------------------------------------
(* uint: 32 bit unsigned, wrapping                                         *)

\* 2^32 = 42 9496 7296
UintModulus == <<7296, 9496, 42>>

UINT_MAX == BigSub(UintModulus, BigOne)

\* u + 1 in uint arithmetic
UintInc(u) ==
    LET s == BigAdd(u, BigOne)
    IN  IF BigCmp(s, UintModulus) >= 0 THEN BigSub(s, UintModulus) ELSE s

\* a - b in uint arithmetic
UintSub(a, b) ==
    IF BigCmp(a, b) >= 0 THEN BigSub(a, b)
    ELSE BigSub(BigAdd(a, UintModulus), b)

---------------------------------------------------------------------------
(* model_float                                                             *)

NaN == [k |-> "nan"]
PInf == [k |-> "pinf"]
NInf == [k |-> "ninf"]

Fin(sgn, n, d) ==
    IF sgn = 0 \/ n = <<>> THEN [k |-> "fin", sgn |-> 0, n |-> <<>>, d |-> BigOne]
    ELSE [k |-> "fin", sgn |-> sgn, n |-> n, d |-> d]

\* the float sgn * p / q
Rational(sgn, p, q) == Fin(sgn, BigMul(p, p), BigMul(q, q))

IsFin(v) == v.k = "fin"
IsUndefinedForMin(v) == v.k \in {"nan", "pinf", "ninf"}

\* order of two finite floats: -1, 0, 1
FinCmp(x, y) ==
    IF x.sgn # y.sgn THEN (IF x.sgn < y.sgn THEN -1 ELSE 1)
    ELSE IF x.sgn = 0 THEN 0
    ELSE x.sgn * BigCmp(BigMul(x.n, y.d), BigMul(y.n, x.d))

FloatEq(x, y) ==
    IF IsFin(x) /\ IsFin(y) THEN FinCmp(x, y) = 0
    ELSE x.k = y.k /\ x.k # "nan"

\* x <= y as IEEE decides it (false when either is NaN)
FloatLeq(x, y) ==
    CASE x.k = "nan" \/ y.k = "nan" -> FALSE
      [] x.k = "ninf" \/ y.k = "pinf" -> TRUE
      [] x.k = "pinf" \/ y.k = "ninf" -> FALSE
      [] OTHER -> FinCmp(x, y) <= 0

\* (model_float) num / den, both uint converted to float
FloatDivUint(num, den) ==
    IF den = <<>>
    THEN (IF num = <<>> THEN NaN ELSE PInf)
    ELSE [k |-> "quot", num |-> num, den |-> den]

\* sqrt of a quotient of two non-negative integers, or of a special
FloatSqrt(q) ==
    IF q.k = "quot" THEN Fin(1, q.num, q.den) ELSE q

FloatMul(x, y) ==
    CASE x.k = "nan" \/ y.k = "nan" -> NaN
      [] IsFin(x) /\ IsFin(y) ->
            Fin(x.sgn * y.sgn, BigMul(x.n, y.n), BigMul(x.d, y.d))
      [] OTHER ->
            LET sx == IF IsFin(x) THEN x.sgn ELSE IF x.k = "pinf" THEN 1 ELSE -1
                sy == IF IsFin(y) THEN y.sgn ELSE IF y.k = "pinf" THEN 1 ELSE -1
            IN  IF sx * sy = 0 THEN NaN
                ELSE IF sx * sy > 0 THEN PInf ELSE NInf

\* OpenCL min(x, y): "Returns y if y < x, otherwise it returns x. If x or y
\* are infinite or NaN, the return values are undefined": the set of values
\* an implementation may return.
FloatMin(x, y) ==
    IF IsUndefinedForMin(x) \/ IsUndefinedForMin(y) THEN {x, y}
    ELSE IF FinCmp(y, x) < 0 THEN {y} ELSE {x}

\* the literal written as 1e9
UPPER_BOUND_1e9 == Rational(1, <<0, 0, 10>>, BigOne)

\* the literal 1e10
UPPER_BOUND == Rational(1, <<0, 0, 100>>, BigOne)

\* the rule with "acceptance_counter" in place of "acceptance_counter+1"
update_numerator_without_plus_one(current_value, acceptance_counter, jump_counter) ==
    FloatMin(FloatMul(current_value,
                      FloatSqrt(FloatDivUint(acceptance_counter,
                                             UintInc(UintSub(jump_counter,
                                                             acceptance_counter))))),
             UPPER_BOUND)

\* the rule with the two counters of the subtraction exchanged
update_subtraction_exchanged(current_value, acceptance_counter, jump_counter) ==
    FloatMin(FloatMul(current_value,
                      FloatSqrt(FloatDivUint(UintInc(acceptance_counter),
                                             UintInc(UintSub(acceptance_counter,
                                                             jump_counter))))),
             UPPER_BOUND)

\* ProposalParameter.get_parameter_update_function(): the function the
\* fragment defines; the set of values a call may return.
dmriproposal_default_parameter_update(current_value, acceptance_counter, jump_counter) ==
    FloatMin(FloatMul(current_value,
                      FloatSqrt(FloatDivUint(UintInc(acceptance_counter),
                                             UintInc(UintSub(jump_counter,
                                                             acceptance_counter))))),
             UPPER_BOUND)

---------------------------------------------------------------------------
(* Applying the update rule: the inputs are drawn in Init, Apply calls the *)
(* rule on the running value with the drawn counters.                      *)

MaxCounter == 9
MaxWrap == 1
MaxUpdates == 2

\* counters near 0 and near the top of uint
CounterSamples ==
    {BigOfNat(c) : c \in 0..MaxCounter}
        \cup {BigSub(UINT_MAX, BigOfNat(c)) : c \in 0..MaxWrap}

\* 0.0, 1.0, 0.5, -1.0, 1e10, 2e10
CurrentValues ==
    { Fin(0, <<>>, BigOne),
      Rational(1, BigOne, BigOne),
      Rational(1, BigOne, <<2>>),
      Rational(-1, BigOne, BigOne),
      Rational(1, <<0, 0, 100>>, BigOne),
      Rational(1, <<0, 0, 200>>, BigOne) }

IdleFactory == None
IdleUpd == None
IdleSampler == None
IdleProgram == None
IdlePdf == None

InitUpdate ==
    /\ upd \in [value : CurrentValues,
                acceptance_counter : CounterSamples,
                jump_counter : CounterSamples,
                call : {None},
                n : {0}]
    /\ factory = IdleFactory
    /\ sampler = IdleSampler
    /\ program = IdleProgram
    /\ pdf = IdlePdf

ApplyUpdate ==
    /\ upd.n < MaxUpdates
    /\ \E r \in dmriproposal_default_parameter_update(
                    upd.value, upd.acceptance_counter, upd.jump_counter) :
            upd' = [upd EXCEPT !.value = r,
                               !.call = [k |-> "call", current_value |-> upd.value],
                               !.n = upd.n + 1]
    /\ UNCHANGED <<factory, sampler, program, pdf>>

NextUpdate == ApplyUpdate

SpecUpdate == InitUpdate /\ [][NextUpdate]_vars

---------------------------------------------------------------------------
(* Claims about the default update rule                                    *)

\* 1e10, as the claims name it
TenToTen == Rational(1, <<0, 0, 100>>, BigOne)
FloatOne == Rational(1, BigOne, BigOne)
Zero == <<>>
Nine == BigOfNat(9)

\* the last call of the rule was update(cv, a, j)
Called(cv, a, j) ==
    /\ upd.call.k = "call"
    /\ FloatEq(upd.call.current_value, cv)
    /\ upd.acceptance_counter = a
    /\ upd.jump_counter = j

\* C3 as stated: update(1.0, 9, 9) returns 1.0.
C3_Original_Update_1_9_9_Is_1 ==
    Called(FloatOne, Nine, Nine) => FloatEq(upd.value, FloatOne)

\* C3 as amended: update(1.0, 9, 9) returns sqrt((9 + 1) / (9 - 9 + 1)) =
\* sqrt(10), which is above 1.0 and below the upper bound 1e10.
C3_Update_1_9_9_Is_Sqrt10 ==
    Called(FloatOne, Nine, Nine) =>
        /\ FloatEq(upd.value, Fin(1, <<10>>, BigOne))
        /\ ~FloatLeq(upd.value, FloatOne)
        /\ FloatLeq(upd.value, TenToTen)

C3_Witness == Called(FloatOne, Nine, Nine) /\ upd.n = 1 /\ IsFin(upd.value)

\* C4 as stated: update(1.0, 9, 0) returns a value that is at most 1e10 and
\* at least 1.0.
C4_Original_Update_1_9_0_AtLeast_1 ==
    Called(FloatOne, Nine, Zero) =>
        FloatLeq(upd.value, TenToTen) /\ FloatLeq(FloatOne, upd.value)

\* C4 as amended: update(1.0, 9, 0) returns a value that is at most 1e10 and
\* below 1.0: jump_counter - acceptance_counter wraps to 2^32 - 9, so the
\* value is sqrt(10 / (2^32 - 8)).
C4_Update_1_9_0_Below_1 ==
    Called(FloatOne, Nine, Zero) =>
        /\ FloatLeq(upd.value, TenToTen)
        /\ ~FloatLeq(FloatOne, upd.value)
        /\ FloatEq(upd.value, Fin(1, <<10>>, BigSub(UintModulus, <<8>>)))

C4_Witness == Called(FloatOne, Nine, Zero) /\ upd.n = 1 /\ IsFin(upd.value)

\* C5 as stated: for every current_value, update(current_value, 0, 0)
\* returns current_value unchanged.
C5_Original_ZeroCounters_Identity ==
    (upd.call.k = "call" /\ upd.acceptance_counter = Zero /\ upd.jump_counter = Zero)
        => FloatEq(upd.value, upd.call.current_value)

\* C5 as amended: for every current_value that is at most 1e10,
\* update(current_value, 0, 0) returns current_value unchanged, however often
\* it is applied; a current_value above 1e10 is returned as 1e10.
C5_ZeroCounters_Identity_UpTo_Bound ==
    (upd.call.k = "call" /\ upd.acceptance_counter = Zero /\ upd.jump_counter = Zero)
        => IF FloatLeq(upd.call.current_value, TenToTen)
           THEN FloatEq(upd.value, upd.call.current_value)
           ELSE FloatEq(upd.value, TenToTen)

C5_Witness ==
    /\ Called(Rational(1, BigOne, <<2>>), Zero, Zero)
    /\ upd.n = MaxUpdates
    /\ FloatEq(upd.value, Rational(1, BigOne, <<2>>))

\* C10: for every current_value and every pair of counters the value the
\* rule returns is at most 1e10.
C10_Update_Never_Above_Bound ==
    upd.call.k = "call" => FloatLeq(upd.value, TenToTen)

---------------------------------------------------------------------------
(* ProposalParameter, GaussianProposal and a sampling run that uses them   *)

\* ProposalParameter.__init__(default_value, adaptable)
ProposalParameter(default_value, adaptable) ==
    [default_value |-> default_value, adaptable |-> adaptable]

\* the constructor dropping its adaptable argument
GaussianProposal_always_adaptable(std, adaptable) ==
    [_parameters |-> <<ProposalParameter(std, TRUE)>>]

\* GaussianProposal.__init__(std, adaptable)
GaussianProposal(std, adaptable) ==
    [_parameters |-> <<ProposalParameter(std, adaptable)>>]

\* GaussianProposal.get_parameters()
get_parameters(self) == self._parameters

\* AbstractParameterProposal.is_symmetric, which GaussianProposal inherits
is_symmetric(self) == TRUE

MaxJumps == 3
MaxSteps == 2

\* 1.0 (the default), 0.5, 2.0
StdValues ==
    { FloatOne, Rational(1, BigOne, <<2>>), Rational(1, <<2>>, BigOne) }

\* The sampler holds one runtime value per proposal parameter, starting at
\* its default_value, and the two counters of the run.
InitSampler ==
    /\ \E std \in StdValues, adaptable \in BOOLEAN :
          LET proposal == GaussianProposal(std, adaptable)
          IN  sampler = [ctor |-> [std |-> std, adaptable |-> adaptable],
                         proposal |-> proposal,
                         value |-> [i \in DOMAIN get_parameters(proposal) |->
                                        get_parameters(proposal)[i].default_value],
                         acceptance_counter |-> 0,
                         jump_counter |-> 0,
                         steps |-> 0,
                         applied |-> 0]
    /\ factory = IdleFactory
    /\ upd = IdleUpd
    /\ program = IdleProgram
    /\ pdf = IdlePdf

\* one jump of the run, accepted or rejected
Jump(accepted) ==
    /\ sampler.jump_counter < MaxJumps
    /\ sampler' = [sampler EXCEPT
                      !.jump_counter = @ + 1,
                      !.acceptance_counter = IF accepted THEN @ + 1 ELSE @]
    /\ UNCHANGED <<factory, upd, program, pdf>>

AcceptedJump == Jump(TRUE)
RejectedJump == Jump(FALSE)

\* the values parameter i may take in an update step: the rule is applied
\* to an adaptable parameter only
UpdatedValues(i) ==
    IF get_parameters(sampler.proposal)[i].adaptable
    THEN dmriproposal_default_parameter_update(
             sampler.value[i],
             BigOfNat(sampler.acceptance_counter),
             BigOfNat(sampler.jump_counter))
    ELSE {sampler.value[i]}

NumAdaptable ==
    Cardinality({i \in DOMAIN get_parameters(sampler.proposal) :
                    get_parameters(sampler.proposal)[i].adaptable})

\* the sampler's update step over all parameters of the proposal
UpdateStep ==
    /\ sampler.steps < MaxSteps
    /\ \E nv \in [DOMAIN sampler.value -> UNION {UpdatedValues(i) : i \in DOMAIN sampler.value}] :
          /\ \A i \in DOMAIN sampler.value : nv[i] \in UpdatedValues(i)
          /\ sampler' = [sampler EXCEPT !.value = nv,
                                        !.steps = @ + 1,
                                        !.applied = @ + NumAdaptable]
    /\ UNCHANGED <<factory, upd, program, pdf>>

NextSampler == AcceptedJump \/ RejectedJump \/ UpdateStep

SpecSampler == InitSampler /\ [][NextSampler]_vars

\* C6: a parameter constructed with adaptable = false keeps its
\* default_value in every state of a sampling run, whatever the jumps and
\* update steps: the update rule is never applied to it.
C6_NonAdaptable_Value_Fixed ==
    sampler.ctor.adaptable = FALSE =>
        /\ sampler.applied = 0
        /\ \A i \in DOMAIN sampler.value :
              /\ get_parameters(sampler.proposal)[i].adaptable = FALSE
              /\ sampler.value[i] = sampler.ctor.std
              /\ sampler.value[i] = get_parameters(sampler.proposal)[i].default_value

C6_Witness ==
    /\ sampler.ctor.adaptable = FALSE
    /\ sampler.steps = MaxSteps
    /\ sampler.jump_counter >= 2
    /\ sampler.acceptance_counter >= 1
    /\ sampler.acceptance_counter < sampler.jump_counter
    /\ sampler.value[1] = sampler.ctor.std

---------------------------------------------------------------------------
(* factory.py: lookup of a class by its pretty name                        *)

\* the lists of get_optimizer_by_name, get_filter_by_name and
\* get_load_balance_strategy_by_name; a class is written as its name
optimizers ==
    << "LevenbergMarquardt", "GridSearch", "Powell", "NMSimplex", "MetaOptimizer",
       "SerialBasinHopping", "SerialBFGS", "SerialLM", "SerialNMSimplex",
       "SerialPowell" >>

filters == << "GaussianFilter", "MeanFilter", "MedianFilter" >>

lb ==
    << "EvenDistribution", "RuntimeLoadBalancing", "PreferGPU", "PreferCPU",
       "PreferSpecificEnvironment" >>

Range(seq) == {seq[i] : i \in DOMAIN seq}

Classes == Range(optimizers) \cup Range(filters) \cup Range(lb)

Families == {optimizers, filters, lb}

\* item.get_pretty_name(): the classes are not part of the sources at hand;
\* the names they declare are fixed when the run starts
get_pretty_name(item) == factory.pretty_name[item]

\* Every class declares its own name, or one class of a family declares the
\* name of another class of that family (nothing keeps the names unique).
PrettyNameMaps ==
    { [c \in Classes |-> c] }
        \cup { [c \in Classes |-> IF c = fam[i] THEN fam[j] ELSE c] :
                 <<fam, i, j>> \in { t \in Families \X (1..10) \X (1..10) :
                                        /\ t[2] \in DOMAIN t[1]
                                        /\ t[3] \in DOMAIN t[1]
                                        /\ t[2] # t[3] } }

\* '...{0}...{1}...'.format(name, factory_type), as its pieces
Format(name, factory_type) ==
    << "The item with the name ", name, " could not be found in the ",
       factory_type, " factory." >>

RECURSIVE ScanItems(_, _, _, _)
ScanItems(name, item_list, factory_type, i) ==
    IF i > Len(item_list)
    THEN [k |-> "raise", exception |-> "ValueError",
          message |-> Format(name, factory_type)]
    ELSE IF get_pretty_name(item_list[i]) = name
    THEN [k |-> "return", value |-> [ref |-> "class", cls |-> item_list[i]]]
    ELSE ScanItems(name, item_list, factory_type, i + 1)

\* the scan keeping the last match instead of returning at the first
RECURSIVE ScanItemsLast(_, _, _, _)
ScanItemsLast(name, item_list, factory_type, i) ==
    IF i = 0
    THEN [k |-> "raise", exception |-> "ValueError",
          message |-> Format(name, factory_type)]
    ELSE IF get_pretty_name(item_list[i]) = name
    THEN [k |-> "return", value |-> [ref |-> "class", cls |-> item_list[i]]]
    ELSE ScanItemsLast(name, item_list, factory_type, i - 1)

get_item_last_match(name, item_list, factory_type) ==
    ScanItemsLast(name, item_list, factory_type, Len(item_list))

\* _get_item(name, item_list, factory_type)
get_item(name, item_list, factory_type) ==
    ScanItems(name, item_list, factory_type, 1)

get_optimizer_by_name(name) == get_item(name, optimizers, "optimizers")

\* the filter lookup with the label of the optimizer lookup
get_filter_by_name_optimizers_label(name) == get_item(name, filters, "optimizers")

get_filter_by_name(name) == get_item(name, filters, "smoothers")

get_load_balance_strategy_by_name(name) == get_item(name, lb, "load balancers")

\* the names asked for: every class name and one that no class declares
LookupNames == Classes \cup {"NonexistentAlgorithm"}

InitFactory ==
    /\ factory \in [pretty_name : PrettyNameMaps, call : {None}, result : {None}]
    /\ upd = IdleUpd
    /\ sampler = IdleSampler
    /\ program = IdleProgram
    /\ pdf = IdlePdf

Lookup(fn, name, outcome) ==
    /\ factory' = [factory EXCEPT !.call = [k |-> "call", fn |-> fn, name |-> name],
                                  !.result = outcome]
    /\ UNCHANGED <<upd, sampler, program, pdf>>

GetOptimizerByName ==
    \E name \in LookupNames :
        Lookup("get_optimizer_by_name", name, get_optimizer_by_name(name))

GetFilterByName ==
    \E name \in LookupNames :
        Lookup("get_filter_by_name", name, get_filter_by_name(name))

GetLoadBalanceStrategyByName ==
    \E name \in LookupNames :
        Lookup("get_load_balance_strategy_by_name", name,
               get_load_balance_strategy_by_name(name))

NextFactory == GetOptimizerByName \/ GetFilterByName \/ GetLoadBalanceStrategyByName

SpecFactory == InitFactory /\ [][NextFactory]_vars

\* the ordered list a lookup function searches
FamilyOf(fn) ==
    CASE fn = "get_optimizer_by_name" -> optimizers
      [] fn = "get_filter_by_name" -> filters
      [] fn = "get_load_balance_strategy_by_name" -> lb

Matches(fn, name) ==
    {i \in DOMAIN FamilyOf(fn) : factory.pretty_name[FamilyOf(fn)[i]] = name}

\* C1: when at least one entry of the searched list has the pretty name
\* asked for, the lookup returns the first such entry in list order, as the
\* class itself and not an instance of it.
C1_Lookup_Returns_First_Match ==
    (factory.call.k = "call" /\ Matches(factory.call.fn, factory.call.name) # {}) =>
        LET m == Matches(factory.call.fn, factory.call.name)
            first == CHOOSE i \in m : \A j \in m : i <= j
        IN  /\ factory.result.k = "return"
            /\ factory.result.value.ref = "class"
            /\ factory.result.value.cls = FamilyOf(factory.call.fn)[first]

\* two entries share the name asked for and the earlier one was returned
C1_Witness ==
    /\ factory.call.k = "call"
    /\ Cardinality(Matches(factory.call.fn, factory.call.name)) = 2
    /\ factory.result.k = "return"
    /\ \E i \in Matches(factory.call.fn, factory.call.name) :
          /\ factory.result.value.cls = FamilyOf(factory.call.fn)[i]
          /\ \E j \in Matches(factory.call.fn, factory.call.name) : i < j

Contains(message, piece) == \E i \in DOMAIN message : message[i] = piece

\* C2: when no entry of the searched list has the pretty name asked for, the
\* lookup raises an error whose message holds the name and the label of the
\* family: "optimizers", "smoothers" or "load balancers".
C2_NotFound_Names_Name_And_Family ==
    (factory.call.k = "call" /\ Matches(factory.call.fn, factory.call.name) = {}) =>
        /\ factory.result.k = "raise"
        /\ Contains(factory.result.message, factory.call.name)
        /\ Contains(factory.result.message,
                    CASE factory.call.fn = "get_optimizer_by_name" -> "optimizers"
                      [] factory.call.fn = "get_filter_by_name" -> "smoothers"
                      [] factory.call.fn = "get_load_balance_strategy_by_name" ->
                            "load balancers")

C2_Witness ==
    /\ factory.call.k = "call"
    /\ factory.call.fn = "get_optimizer_by_name"
    /\ factory.call.name = "NonexistentAlgorithm"
    /\ factory.result.k = "raise"
    /\ Contains(factory.result.message, "NonexistentAlgorithm")
    /\ Contains(factory.result.message, "optimizers")

---------------------------------------------------------------------------
(* The CL source fragments and a generated program that includes them.     *)
(* A fragment is kept as its lines that matter to the preprocessor and the *)
(* compiler: #ifndef, #define, a function definition, #endif.              *)

Ifndef(sym) == [op |-> "ifndef", sym |-> sym]
Define(sym) == [op |-> "define", sym |-> sym]
Function(name) == [op |-> "function", name |-> name]
Endif == [op |-> "endif"]

\* ProposalParameter.get_parameter_update_function()
get_parameter_update_function ==
    << Ifndef("DMRIPROPOSAL_DEFAULT_PARAMETER_UPDATE"),
       Define("DMRIPROPOSAL_DEFAULT_PARAMETER_UPDATE"),
       Function("dmriproposal_default_parameter_update"),
       Endif >>

\* ProposalParameter.get_parameter_update_function_name()
get_parameter_update_function_name == "dmriproposal_default_parameter_update"

\* GaussianProposal.get_proposal_function()
get_proposal_function ==
    << Ifndef("DMRIPROP_GAUSSIANPROPOSAL_CL"),
       Define("DMRIPROP_GAUSSIANPROPOSAL_CL"),
       Function("dmriproposal_gaussianProposal"),
       Endif >>

\* the accessor with the name in another spelling
get_proposal_function_name_lowercase == "dmriproposal_gaussianproposal"

\* GaussianProposal.get_proposal_function_name()
get_proposal_function_name == "dmriproposal_gaussianProposal"

\* the log-density fragment under the guard of the jump fragment
get_proposal_logpdf_function_jump_guard ==
    << Ifndef("DMRIPROP_GAUSSIANPROPOSAL_CL"),
       Define("DMRIPROP_GAUSSIANPROPOSAL_CL"),
       Function("dmriproposal_gaussianProposalLogPDF"),
       Endif >>

\* GaussianProposal.get_proposal_logpdf_function()
get_proposal_logpdf_function ==
    << Ifndef("DMRIPROP_GAUSSIANPROPOSALLOGPDF_CL"),
       Define("DMRIPROP_GAUSSIANPROPOSALLOGPDF_CL"),
       Function("dmriproposal_gaussianProposalLogPDF"),
       Endif >>

\* GaussianProposal.get_proposal_logpdf_function_name()
get_proposal_logpdf_function_name == "dmriproposal_gaussianProposalLogPDF"

Kinds == {"proposal", "logpdf", "update"}

\* the fragment an instance returns: the same text for every instance
FragmentOf(kind) ==
    CASE kind = "proposal" -> get_proposal_function
      [] kind = "logpdf" -> get_proposal_logpdf_function
      [] kind = "update" -> get_parameter_update_function

FunctionNameOf(kind) ==
    CASE kind = "proposal" -> get_proposal_function_name
      [] kind = "logpdf" -> get_proposal_logpdf_function_name
      [] kind = "update" -> get_parameter_update_function_name

\* The preprocessor and compiler over the lines of a fragment.  st.defined
\* are the macros defined so far, st.functions the function definitions
\* compiled so far in order (a name twice is a duplicate definition),
\* st.cond the open conditionals (TRUE: its lines are kept).
RECURSIVE Compile(_, _, _)
Compile(lines, i, st) ==
    IF i > Len(lines) THEN st
    ELSE LET ln == lines[i]
             active == \A c \in DOMAIN st.cond : st.cond[c]
         IN  CASE ln.op = "ifndef" ->
                    Compile(lines, i + 1,
                            [st EXCEPT !.cond = Append(@, ln.sym \notin st.defined)])
               [] ln.op = "define" ->
                    Compile(lines, i + 1,
                            IF active
                            THEN [st EXCEPT !.defined = @ \cup {ln.sym}]
                            ELSE st)
               [] ln.op = "function" ->
                    Compile(lines, i + 1,
                            IF active
                            THEN [st EXCEPT !.functions = Append(@, ln.name)]
                            ELSE st)
               [] ln.op = "endif" ->
                    Compile(lines, i + 1,
                            [st EXCEPT !.cond = SubSeq(@, 1, Len(@) - 1)])

EmptyUnit == [defined |-> {}, functions |-> <<>>, cond |-> <<>>]

NumProposals == 2
MaxIncludes == 3

InitProgram ==
    /\ program = [unit |-> EmptyUnit, included |-> <<>>, last_call |-> None]
    /\ factory = IdleFactory
    /\ upd = IdleUpd
    /\ sampler = IdleSampler
    /\ pdf = IdlePdf

\* the program builder appends the fragment of one instance to the program
Include(kind) ==
    /\ Len(program.included) < MaxIncludes
    /\ \E instance \in 1..NumProposals :
          program' = [program EXCEPT
                         !.unit = Compile(FragmentOf(kind), 1, @),
                         !.included = Append(@, [instance |-> instance, kind |-> kind])]
    /\ UNCHANGED <<factory, upd, sampler, pdf>>

IncludeProposalFunction == Include("proposal")
IncludeProposalLogpdfFunction == Include("logpdf")
IncludeParameterUpdateFunction == Include("update")

\* the program builder writes a call of a fragment it has included, by the
\* name the accessor returns
EmitCall ==
    /\ \E e \in Range(program.included) :
          program' = [program EXCEPT
                         !.last_call = [k |-> "call", callee |-> FunctionNameOf(e.kind)]]
    /\ UNCHANGED <<factory, upd, sampler, pdf>>

NextProgram ==
    \/ IncludeProposalFunction
    \/ IncludeProposalLogpdfFunction
    \/ IncludeParameterUpdateFunction
    \/ EmitCall

SpecProgram == InitProgram /\ [][NextProgram]_vars

\* the functions a fragment defines when compiled on its own
DefinedBy(fragment) == Compile(fragment, 1, EmptyUnit).functions

\* the guard symbol of a fragment: that of its opening #ifndef
GuardOf(fragment) == fragment[1].sym

RECURSIVE FirstKinds(_)
FirstKinds(inc) ==
    IF inc = <<>> THEN <<>>
    ELSE LET before == SubSeq(inc, 1, Len(inc) - 1)
             e == inc[Len(inc)]
         IN  IF \E i \in DOMAIN before : before[i].kind = e.kind
             THEN FirstKinds(before)
             ELSE Append(FirstKinds(before), e.kind)

\* C7: in a program that includes the fragments in any order and any number
\* of times, no function is defined twice: the guards of the three fragments
\* are pairwise distinct, the first inclusion of a fragment defines its
\* function and every later inclusion of it adds nothing.
C7_No_Function_Defined_Twice ==
    /\ \A i, j \in DOMAIN program.unit.functions :
          program.unit.functions[i] = program.unit.functions[j] => i = j
    /\ \A a, b \in Kinds : a # b => GuardOf(FragmentOf(a)) # GuardOf(FragmentOf(b))
    /\ Len(program.unit.functions) = Len(FirstKinds(program.included))
    /\ \A i \in DOMAIN program.unit.functions :
          DefinedBy(FragmentOf(FirstKinds(program.included)[i]))
              = <<program.unit.functions[i]>>
    /\ program.unit.cond = <<>>

\* one fragment was included by two instances and another fragment besides
C7_Witness ==
    /\ Len(program.included) = 3
    /\ program.included[1].kind = "logpdf"
    /\ program.included[2].kind = "proposal"
    /\ program.included[3].kind = "logpdf"
    /\ program.included[1].instance # program.included[3].instance
    /\ Len(program.unit.functions) = 2

\* C8: each *_function_name() accessor returns exactly the name of the one
\* function its fragment defines, the jump and the log-density function have
\* different names, and a call written with the accessor's name therefore
\* names a function of the program.
C8_Accessor_Names_The_Defined_Function ==
    /\ \A e \in Range(program.included) :
          DefinedBy(FragmentOf(e.kind)) = <<FunctionNameOf(e.kind)>>
    /\ (\E e \in Range(program.included) : e.kind \in {"proposal", "logpdf"})
          => get_proposal_function_name # get_proposal_logpdf_function_name
    /\ program.last_call.k = "call"
          => program.last_call.callee \in Range(program.unit.functions)

C8_Witness ==
    /\ {e.kind : e \in Range(program.included)} = Kinds
    /\ program.last_call.k = "call"
    /\ program.last_call.callee = get_proposal_logpdf_function_name
    /\ program.unit.functions[1] = get_parameter_update_function_name

---------------------------------------------------------------------------
(* The log-density kernel of the Gaussian proposal, on exact rationals     *)
(* num / den kept in lowest terms with den > 0.                            *)

Abs(a) == IF a < 0 THEN -a ELSE a

RECURSIVE Gcd(_, _)
Gcd(a, b) == IF b = 0 THEN a ELSE Gcd(b, a % b)

Rat(num, den) ==
    LET g == Gcd(Abs(num), Abs(den))
        sg == IF den < 0 THEN -1 ELSE 1
    IN  [num |-> sg * (num \div g), den |-> sg * (den \div g)]

RatSub(a, b) == Rat(a.num * b.den - b.num * a.den, a.den * b.den)
RatMul(a, b) == Rat(a.num * b.num, a.den * b.den)
RatDiv(a, b) == Rat(a.num * b.den, a.den * b.num)

RECURSIVE RatPown(_, _)
RatPown(a, e) == IF e = 0 THEN Rat(1, 1) ELSE RatMul(a, RatPown(a, e - 1))

\* the kernel without the square
LogPDF_without_square(x, mu, std) ==
    [log_of_M_2_SQRTPI_times |-> RatDiv(Rat(1, 1), std),
     plus |-> RatMul(Rat(-1, 2), RatPown(RatDiv(RatSub(x, mu), std), 1))]

\* log(M_2_SQRTPI / std) + (-0.5 * pown((x - mu) / std, 2)): the logarithm is
\* kept by its argument, as the rational multiple of M_2_SQRTPI = 2/sqrt(pi)
dmriproposal_gaussianProposalLogPDF(x, mu, std) ==
    [log_of_M_2_SQRTPI_times |-> RatDiv(Rat(1, 1), std),
     plus |-> RatMul(Rat(-1, 2), RatPown(RatDiv(RatSub(x, mu), std), 2))]

MaxCoord == 2
MaxStd == 4

\* x and mu in steps of 1/2, std > 0 in steps of 1/2
Coords == {Rat(c, 2) : c \in (-MaxCoord)..MaxCoord}
Stds == {Rat(c, 2) : c \in 1..MaxStd}

InitLogPDF ==
    /\ pdf = None
    /\ factory = IdleFactory
    /\ upd = IdleUpd
    /\ sampler = IdleSampler
    /\ program = IdleProgram

\* the sampler evaluates the density of the jump from mu to x and of the
\* jump back, with the proposal's std
EvaluateLogPDF ==
    /\ \E x \in Coords, mu \in Coords, std \in Stds :
          pdf' = [k |-> "eval", x |-> x, mu |-> mu, std |-> std,
                  symmetric |-> is_symmetric(GaussianProposal(std, TRUE)),
                  forward |-> dmriproposal_gaussianProposalLogPDF(x, mu, std),
                  backward |-> dmriproposal_gaussianProposalLogPDF(mu, x, std)]
    /\ UNCHANGED <<factory, upd, sampler, program>>

NextLogPDF == EvaluateLogPDF

SpecLogPDF == InitLogPDF /\ [][NextLogPDF]_vars

\* C9: the Gaussian proposal reports is_symmetric = true, and its log-density
\* kernel gives the same value when x and mu are exchanged, for every std > 0.
C9_LogPDF_Symmetric ==
    pdf.k = "eval" =>
        /\ pdf.symmetric = TRUE
        /\ pdf.forward = pdf.backward
        /\ pdf.forward.plus = Rat(-(pdf.x.num * pdf.mu.den - pdf.mu.num * pdf.x.den)
                                      * (pdf.x.num * pdf.mu.den - pdf.mu.num * pdf.x.den)
                                      * pdf.std.den * pdf.std.den,
                                  2 * pdf.x.den * pdf.mu.den * pdf.x.den * pdf.mu.den
                                      * pdf.std.num * pdf.std.num)

C9_Witness ==
    /\ pdf.k = "eval"
    /\ pdf.x = Rat(-1, 2)
    /\ pdf.mu = Rat(1, 1)
    /\ pdf.std = Rat(3, 2)
    /\ pdf.forward = pdf.backward
    /\ pdf.forward.plus = Rat(-1, 2)

====
